---- MODULE Spec2Model ----
(***************************************************************************)
(* A model of muda/base.py: BaseTransformer (one generation pass,          *)
(* _transform, and the lazy generator transform) and Pipeline (the         *)
(* constructor's validation and the recursive generator composition).      *)
(*                                                                         *)
(* Documents (jams) live in a heap indexed by object identity, so that a   *)
(* deep copy, an alias and an in-place mutation are different things.      *)
(* A generator is a record holding its suspended frames; one next() on a   *)
(* stream is Pull followed by the loop iterations (Advance) it runs until  *)
(* it yields, ends or raises.  Python is single threaded: while a pull is  *)
(* running nothing else happens.                                           *)
(***************************************************************************)
EXTENDS Integers, Sequences, FiniteSets

\* ---------------------------------------------------------------- bounds
MaxSamples == 2      \* largest finite n_samples tried
MaxSteps == 2        \* longest argument list given to Pipeline(...)
MaxDocs == 8         \* heap size: the two inputs plus the generated copies
MaxState == 2        \* number of values a stochastic get_state can pick
MaxMutations == 1    \* in-place mutations the consumer makes to outputs

\* ---------------------------------------------------------------- values
\* n_samples = None (unbounded), kept apart from every count
None == -1

\* Two transformer instances.  T1 is an instance of a subclass that
\* overrides get_state and declares audio, metadata and two dispatch
\* entries; T2 is a plain BaseTransformer (no hook, get_state() == dict()).
Transformers == {"T1", "T2"}

\* Step values that are not BaseTransformer instances.
NonTransformers == {"str", "int", "obj"}

Names == {"a", "b", "c"}

\* The Python builds base.py runs on (it imports six to span both).
Builds == {"py2", "py3"}

\* The empty dict that __init__ and transform store in self._state.
EmptyState == 0

\* The two documents callers hand to transform.
GoodDoc == 1
BadDoc == 2

PriorRecord == [transformer |-> "prior", state |-> EmptyState]

InitAnn == << [ns |-> "x", val |-> 0], [ns |-> "y", val |-> 0] >>

InitHeap ==
  << [muda |-> TRUE, history |-> <<PriorRecord>>, audio |-> 0, meta |-> 0,
      ann |-> InitAnn, src |-> 0, ord |-> 0],
     [muda |-> FALSE, history |-> <<>>, audio |-> 0, meta |-> 0,
      ann |-> InitAnn, src |-> 0, ord |-> 0] >>

VARIABLES
  heap,        \* object id -> document (sandbox.muda, file_metadata, annotations)
  n_samples,   \* transformer -> self.n_samples
  T_state,     \* transformer -> self._state
  pipe,        \* the outcome of the one Pipeline(...) call
  streams,     \* the generators created so far
  touched      \* ids of yielded documents the consumer has mutated

vars == << heap, n_samples, T_state, pipe, streams, touched >>


\* ------------------------------------------------- Pipeline.__init__

Range(f) == { f[k] : k \in DOMAIN f }

Min(S) == CHOOSE x \in S : \A y \in S : x <= y

\* '{:s}'.format(v): a str formats; an int rejects the 's' code with a
\* ValueError on every build; a tuple or any other object goes through
\* object.__format__, which accepts a format spec on Python 2 and raises
\* TypeError on Python 3.
Format_s(v, build) ==
  IF v = "str" THEN "ok"
  ELSE IF v = "int" THEN "ValueError"
  ELSE IF build = "py2" THEN "ok" ELSE "TypeError"

NoPipeline ==
  [status |-> "none", exc |-> "", about |-> "", step |-> 0,
   steps |-> <<>>, args |-> <<>>]

\* The outcome of Pipeline(*steps): status "ok" when __init__ returns,
\* "raised" with the exception class and what its message is about
\* otherwise (about "step": it shows step number step); steps is
\* self.steps as far as __init__ got to assign it.
Pipeline__init__(steps, build) ==
  LET named_steps == { steps[k][1] : k \in DOMAIN steps }
      names == [k \in DOMAIN steps |-> steps[k][1]]
      transformers == [k \in DOMAIN steps |-> steps[k][2]]
      bad == { k \in DOMAIN steps : transformers[k] \notin Transformers }
      raise(cls, what, k, assigned) ==
        [status |-> "raised", exc |-> cls, about |-> what, step |-> k,
         steps |-> assigned, args |-> steps]
  IN IF Len(steps) = 0
       THEN \* names, transformers = zip(*steps) has nothing to unpack
            raise("ValueError", "unpack", 0, <<>>)
     ELSE IF Cardinality(named_steps) # Len(steps)
       THEN IF Format_s("tuple", build) = "ok"
              THEN raise("ValueError", "names", 0, <<>>)
              ELSE raise(Format_s("tuple", build), "format", 0, <<>>)
     ELSE IF bad # {}
       THEN IF Format_s(transformers[Min(bad)], build) = "ok"
              THEN raise("TypeError", "step", Min(bad), steps)
              ELSE raise(Format_s(transformers[Min(bad)], build), "format", 0, steps)
     ELSE [status |-> "ok", exc |-> "", about |-> "", step |-> 0,
           steps |-> steps, args |-> steps]

\* ------------------------------------------------- BaseTransformer

\* hasattr(self, 'audio') / hasattr(self, 'metadata') / self.dispatch
hasAudio(t) == t = "T1"

hasMetadata(t) == t = "T1"

dispatch(t) == IF t = "T1" THEN << "x", "y" >> ELSE << >>

\* get_state(jam): the base class returns dict(); the subclass of T1
\* samples one of MaxState values.
get_state(t) == IF t = "T1" THEN 1..MaxState ELSE {EmptyState}

\* jam.search(namespace=query): the matching annotations, in document order
RECURSIVE search(_, _, _)
search(ann, query, k) ==
  IF k > Len(ann) THEN << >>
  ELSE (IF ann[k].ns = query THEN << k >> ELSE << >>) \o search(ann, query, k + 1)

\* The dispatch calls of one pass, in the order lines 132-134 make them.
RECURSIVE DispatchCalls(_, _, _)
DispatchCalls(table, ann, q) ==
  IF q > Len(table) THEN << >>
  ELSE LET m == search(ann, table[q], 1)
       IN [j \in 1..Len(m) |-> [hook |-> "dispatch", query |-> table[q], a |-> m[j]]]
          \o DispatchCalls(table, ann, q + 1)

\* Variant of HookCalls: the metadata hook is called before the audio hook.
HookCallsMetadataFirst(t, doc) ==
  (IF hasMetadata(t) THEN << [hook |-> "metadata", query |-> "", a |-> 0] >> ELSE << >>)
  \o (IF hasAudio(t) THEN << [hook |-> "audio", query |-> "", a |-> 0] >> ELSE << >>)
  \o DispatchCalls(dispatch(t), doc.ann, 1)

\* The hook calls of one pass, in the order lines 125-134 make them.
HookCalls(t, doc) ==
  (IF hasAudio(t) THEN << [hook |-> "audio", query |-> "", a |-> 0] >> ELSE << >>)
  \o (IF hasMetadata(t) THEN << [hook |-> "metadata", query |-> "", a |-> 0] >> ELSE << >>)
  \o DispatchCalls(dispatch(t), doc.ann, 1)

\* One hook call: the hook reads self._state and writes it into the part
\* of the document it was handed.
ApplyCall(doc, c, s) ==
  IF c.hook = "audio" THEN [doc EXCEPT !.audio = s]
  ELSE IF c.hook = "metadata" THEN [doc EXCEPT !.meta = s]
  ELSE [doc EXCEPT !.ann[c.a].val = s]

\* The first n hook calls, applied in order.
RECURSIVE RunHooks(_, _, _, _)
RunHooks(doc, calls, n, s) ==
  IF n = 0 THEN doc
  ELSE ApplyCall(RunHooks(doc, calls, n - 1, s), calls[n], s)

\* copy.deepcopy(jam): a new object with the same content (src and ord
\* remember what it was copied from and by which loop iteration).
DeepCopy(h, jam, i) == [h[jam] EXCEPT !.src = jam, !.ord = i]

\* Variant of WorkingCopy: the pass works on its argument, not the copy.
WorkingCopyAliased(jam, jam_w) == jam

\* The object the pass appends to and hands to the hooks: jam_w.
WorkingCopy(jam, jam_w) == jam_w

\* Variant of hasMuda: the sidecar check is skipped.
hasMudaUnchecked(h, jam) == TRUE

\* hasattr(jam.sandbox, 'muda')
hasMuda(h, jam) == h[jam].muda

\* Variant of RecordedState: the record takes what self._state held when
\* the pass began.
RecordedStateStale(st, st1, t) == st[t]

\* 'state': self._state in the history record, read inside the with block:
\* st is self._state of every transformer before the pass, st1 after
\* _transform_state has installed this pass's state.
RecordedState(st, st1, t) == st1[t]

\* Variant of Raised: the exception of a failing hook is swallowed.
RaisedSwallowed(fl) == ""

\* What leaves _transform when hook call fl raises (0: none does): hook
\* calls are not wrapped in any try, the exception propagates.
Raised(fl) == IF fl = 0 THEN "" ELSE "HookError"

\* _transform(jam) run by transformer t: s is what get_state returns, fl
\* the hook call that raises (0: none), i the caller's loop counter.
\* Yields the new heap, the new self._state, the exception and the
\* identity of the returned jam_w.
T_transform(h, st, t, jam, s, fl, i) ==
  IF ~ hasMuda(h, jam)
    THEN [exc |-> "RuntimeError", heap |-> h, state |-> st, ret |-> 0]
  ELSE LET jam_w == Len(h) + 1
           h1 == Append(h, DeepCopy(h, jam, i))
           st1 == [st EXCEPT ![t] = s]
           w == WorkingCopy(jam, jam_w)
           h2 == [h1 EXCEPT ![w].history =
                      Append(@, [transformer |-> t,
                                 state |-> RecordedState(st, st1, t)])]
           calls == HookCalls(t, h2[w])
           ran == IF fl = 0 THEN Len(calls) ELSE fl - 1
           h3 == [h2 EXCEPT ![w] = RunHooks(@, calls, ran, st1[t])]
       IN [exc |-> Raised(fl),
           heap |-> h3, state |-> st1,
           ret |-> IF Raised(fl) = "" THEN jam_w ELSE 0]

\* Variant of LoopCond: an unset n_samples counts as no sample at all.
LoopCondNoneEnds(n, i) == n # None /\ i < n

\* Variant of LoopCond: one iteration too many.
LoopCondOffByOne(n, i) == n = None \/ i <= n

\* while self.n_samples is None or i < self.n_samples
LoopCond(n, i) == n = None \/ i < n

\* Variant of NextI: the counter is not advanced.
NextIStuck(i) == i

\* Variant of NextI: the counter is advanced twice per variant.
NextISkip(i) == i + 2

\* i = i + 1, run when the generator is resumed after its yield
NextI(i) == i + 1


\* ------------------------------------------------- generators

\* A generator object.  kind "T": BaseTransformer.transform(jam) of
\* steps[1]; kind "P": Pipeline.transform(jam) over self.steps.
\* frames[k] is the suspended transform generator of step k (its jam and
\* i); status is new (created, body not entered), running (inside a
\* next()), yielded (suspended at the outermost yield), done or failed;
\* out lists what the consumer received; passes[k] counts the calls of
\* _transform made by step k; trail holds the control points the pull in
\* progress has been at, and again tells that it came to one of them a
\* second time.
NewStream(kind, ts, jam) ==
  [kind |-> kind, steps |-> ts, jam |-> jam, frames |-> << >>,
   status |-> "new", out |-> << >>, exc |-> "",
   passes |-> [k \in 1..Len(ts) |-> 0], trail |-> {}, again |-> FALSE]

\* The control point of suspended or running generators: what the next
\* loop conditions (line 162) depend on, the counter i of every step whose
\* n_samples is set.
Ctl(frames, ts) ==
  [k \in DOMAIN frames |->
     IF n_samples[ts[k]] = None THEN None ELSE frames[k].i]

\* The generator g after a step of a pull that leaves it with the frames fs,
\* still running.
Moved(g, fs) ==
  [g EXCEPT !.frames = fs,
            !.trail = @ \cup {Ctl(fs, g.steps)},
            !.again = @ \/ Ctl(fs, g.steps) \in g.trail]

Idle == \A s \in DOMAIN streams : streams[s].status # "running"

\* Entering transform(jam) of transformer t: self._state = dict(); i = 0
EnterTransform(st, t) == [st EXCEPT ![t] = EmptyState]

Front(q) == SubSeq(q, 1, Len(q) - 1)

\* ------------------------------------------------- actions

\* Pipeline(*steps)
NewPipeline(steps, build) ==
  /\ pipe.status = "none"
  /\ streams = << >>
  /\ pipe' = Pipeline__init__(steps, build)
  /\ UNCHANGED << heap, n_samples, T_state, streams, touched >>

\* t.transform(jam): creates generator number g, runs none of its body
TransformerTransform(g, t, jam) ==
  /\ Idle
  /\ g = Len(streams) + 1
  /\ streams' = Append(streams, NewStream("T", << t >>, jam))
  /\ UNCHANGED << heap, n_samples, T_state, pipe, touched >>

\* pipe.transform(jam): creates generator number g, runs none of its body
PipelineTransform(g, jam) ==
  /\ Idle
  /\ pipe.status = "ok"
  /\ g = Len(streams) + 1
  /\ streams' = Append(streams,
        NewStream("P", [k \in DOMAIN pipe.steps |-> pipe.steps[k][2]], jam))
  /\ UNCHANGED << heap, n_samples, T_state, pipe, touched >>

\* Variant of PassInput: each pass starts from the variant before it.
PassInputSibling(g) ==
  IF g.out # << >> THEN g.out[Len(g.out)] ELSE g.frames[Len(g.frames)].jam

\* The jam the innermost transform generator of g passes to _transform:
\* the argument it was called with.
PassInput(g) == g.frames[Len(g.frames)].jam

\* Variant of YieldsToConsumer: the head's variants are yielded as they are.
YieldsAtHead(k, steps) == k = 1

\* __recursive_transform reaches its base case (yield jam) below step k
\* only when no step is left: k is the last step.
YieldsToConsumer(k, steps) == k = Len(steps)

\* next() on a generator that has not finished.  A new generator enters
\* __recursive_transform (its base case yields jam itself when there is no
\* step) and the head's transform; a suspended one resumes the innermost
\* transform generator after its yield.
Pull(s) ==
  LET g == streams[s]
  IN /\ Idle
     /\ g.status \in {"new", "yielded"}
     /\ IF g.status = "new"
          THEN IF YieldsToConsumer(0, g.steps)
                 THEN /\ streams' = [streams EXCEPT ![s].status = "yielded",
                                                    ![s].out = << g.jam >>]
                      /\ UNCHANGED T_state
                 ELSE /\ streams' = [streams EXCEPT ![s] =
                             Moved([g EXCEPT !.status = "running"],
                                   << [jam |-> g.jam, i |-> 0] >>)]
                      /\ T_state' = EnterTransform(T_state, g.steps[1])
          ELSE IF g.frames = << >>
                 THEN /\ streams' = [streams EXCEPT ![s].status = "done"]
                      /\ UNCHANGED T_state
                 ELSE /\ streams' = [streams EXCEPT ![s] =
                             Moved([g EXCEPT !.status = "running"],
                                   [g.frames EXCEPT ![Len(g.frames)].i = NextI(@)])]
                      /\ UNCHANGED T_state
     /\ UNCHANGED << heap, n_samples, pipe, touched >>

\* One iteration of the innermost running transform loop whose condition
\* holds: a pass that returns.  The last step's variant goes out to the
\* consumer (through the base case of __recursive_transform); any other
\* step's variant becomes the jam of the next step's transform.
PassYields(s) ==
  LET g == streams[s]
      k == Len(g.frames)
      f == g.frames[k]
      t == g.steps[k]
  IN /\ g.status = "running"
     /\ LoopCond(n_samples[t], f.i)
     /\ Len(heap) < MaxDocs
     /\ \E st \in get_state(t), fl \in 0..Len(HookCalls(t, heap[PassInput(g)])) :
          LET r == T_transform(heap, T_state, t, PassInput(g), st, fl, f.i)
          IN /\ Raised(fl) = ""
             /\ r.exc = ""
             /\ heap' = r.heap
             /\ IF YieldsToConsumer(k, g.steps)
                  THEN /\ T_state' = r.state
                       /\ streams' = [streams EXCEPT
                             ![s].status = "yielded",
                             ![s].out = Append(@, r.ret),
                             ![s].passes[k] = @ + 1,
                             ![s].trail = {}]
                  ELSE /\ T_state' = EnterTransform(r.state, g.steps[k + 1])
                       /\ streams' = [streams EXCEPT ![s] =
                             Moved([g EXCEPT !.passes[k] = @ + 1],
                                   Append(g.frames, [jam |-> r.ret, i |-> 0]))]
     /\ UNCHANGED << n_samples, pipe, touched >>

\* One iteration whose pass raises (no sidecar, or hook call fl fails):
\* the exception unwinds every generator of the stream.
PassRaises(s) ==
  LET g == streams[s]
      k == Len(g.frames)
      f == g.frames[k]
      t == g.steps[k]
  IN /\ g.status = "running"
     /\ LoopCond(n_samples[t], f.i)
     /\ Len(heap) < MaxDocs
     /\ \E st \in get_state(t), fl \in 0..Len(HookCalls(t, heap[PassInput(g)])) :
          LET r == T_transform(heap, T_state, t, PassInput(g), st, fl, f.i)
          IN /\ r.exc # ""
             /\ heap' = r.heap
             /\ T_state' = r.state
             /\ streams' = [streams EXCEPT
                   ![s].status = "failed", ![s].exc = r.exc,
                   ![s].frames = << >>, ![s].passes[k] = @ + 1,
                   ![s].trail = {}]
     /\ UNCHANGED << n_samples, pipe, touched >>

\* The loop condition fails: the innermost transform generator ends.  The
\* enclosing __recursive_transform asks the step before for its next
\* variant (resuming it: i = i + 1); past the head the whole stream ends.
Exhausted(s) ==
  LET g == streams[s]
      k == Len(g.frames)
      f == g.frames[k]
      t == g.steps[k]
  IN /\ g.status = "running"
     /\ ~ LoopCond(n_samples[t], f.i)
     /\ IF k = 1
          THEN streams' = [streams EXCEPT ![s].status = "done",
                                          ![s].frames = << >>,
                                          ![s].trail = {}]
          ELSE streams' = [streams EXCEPT ![s] =
                  Moved(g, [Front(g.frames) EXCEPT ![k - 1].i = NextI(@)])]
     /\ UNCHANGED << heap, n_samples, T_state, pipe, touched >>

\* Variant of AfterEnd: a generator that has failed starts over.
AfterEndRestarted(g) ==
  [g EXCEPT !.status = IF g.status = "failed" THEN "new" ELSE "done"]

\* What next() makes of a generator that has ended, by returning or by an
\* exception that left it: it raises StopIteration and runs nothing.
AfterEnd(g) == [g EXCEPT !.status = "done"]

\* next() on a generator that has ended or failed
PullFinished(s) ==
  /\ Idle
  /\ streams[s].status \in {"done", "failed"}
  /\ streams' = [streams EXCEPT ![s] = AfterEnd(@)]
  /\ UNCHANGED << heap, n_samples, T_state, pipe, touched >>

\* The consumer changes the document it was last given by generator s, in
\* place: it overwrites a sidecar field and appends to the history.
JunkRecord == [transformer |-> "junk", state |-> EmptyState]

Junk == 9

Yielded == UNION { Range(streams[s].out) : s \in DOMAIN streams }

Mutate(s) ==
  LET out == streams[s].out
      d == out[Len(out)]
  IN /\ Idle
     /\ out # << >>
     /\ d \notin touched
     /\ Cardinality(touched) < MaxMutations
     /\ heap' = [heap EXCEPT ![d].audio = Junk,
                             ![d].history = Append(@, JunkRecord)]
     /\ touched' = touched \cup {d}
     /\ UNCHANGED << n_samples, T_state, pipe, streams >>

\* ------------------------------------------------- specifications

SampleCounts == (0..MaxSamples) \cup {None}

Init ==
  /\ heap = InitHeap
  /\ n_samples \in [Transformers -> SampleCounts]
  /\ T_state = [t \in Transformers |-> EmptyState]
  /\ pipe = NoPipeline
  /\ streams = << >>
  /\ touched = {}

\* Argument lists of valid Pipelines: step k is named NameOf(k).
NameOf(k) == IF k = 1 THEN "a" ELSE IF k = 2 THEN "b" ELSE "c"

ValidSteps ==
  UNION { { [k \in 1..n |-> << NameOf(k), ts[k] >>] : ts \in [1..n -> Transformers] }
          : n \in 1..MaxSteps }

\* One generator of a transformer or of a Pipeline, left alone by its
\* consumer.
Next ==
  \/ \E steps \in ValidSteps, build \in Builds : NewPipeline(steps, build)
  \/ \E t \in Transformers, jam \in {GoodDoc, BadDoc} : TransformerTransform(1, t, jam)
  \/ \E jam \in {GoodDoc, BadDoc} : PipelineTransform(1, jam)
  \/ \E s \in DOMAIN streams : Pull(s)
  \/ \E s \in DOMAIN streams : PassYields(s)
  \/ \E s \in DOMAIN streams : PassRaises(s)
  \/ \E s \in DOMAIN streams : Exhausted(s)

Spec == Init /\ [][Next]_vars

\* One generator of a transformer whose consumer modifies, between two
\* pulls or after the last, the document it was last given.
NextMutate ==
  \/ \E t \in Transformers : TransformerTransform(1, t, GoodDoc)
  \/ \E s \in DOMAIN streams : Pull(s)
  \/ \E s \in DOMAIN streams : PassYields(s)
  \/ \E s \in DOMAIN streams : PassRaises(s)
  \/ \E s \in DOMAIN streams : Exhausted(s)
  \/ \E s \in DOMAIN streams : Mutate(s)

SpecMutate == Init /\ [][NextMutate]_vars

\* Two generators of one transformer instance on the same document,
\* pulled in any interleaving, with hooks that do not fail.
NextPair ==
  \/ \E g \in {1, 2}, t \in Transformers :
        /\ TransformerTransform(g, t, GoodDoc)
        /\ g = 2 => streams[1].steps = << t >>
  \/ \E s \in DOMAIN streams : Pull(s)
  \/ \E s \in DOMAIN streams : PassYields(s)
  \/ \E s \in DOMAIN streams : Exhausted(s)

\* ... each with a finite n_samples.
InitPair ==
  /\ Init
  /\ \A t \in Transformers : n_samples[t] # None

SpecPair == InitPair /\ [][NextPair]_vars

\* Two generators of one Pipeline, each on a document with sidecar, both
\* created before the first pull (creating a generator runs nothing) and
\* then pulled in any interleaving, with hooks that do not fail.
SidecarHeap == [InitHeap EXCEPT ![BadDoc].muda = TRUE]

PairDocs == MaxDocs - 2

InitPipes ==
  /\ heap = SidecarHeap
  /\ n_samples \in [Transformers -> 0..MaxSamples]
  /\ T_state = [t \in Transformers |-> EmptyState]
  /\ pipe = NoPipeline
  /\ streams = << >>
  /\ touched = {}

NextPipes ==
  \/ \E steps \in ValidSteps, build \in Builds : NewPipeline(steps, build)
  \/ \E g \in {1, 2}, jam \in {GoodDoc, BadDoc} :
        /\ PipelineTransform(g, jam)
        /\ g = 1 => jam = GoodDoc
        /\ g = 2 => streams[1].status = "new"
  \/ \E s \in DOMAIN streams : Pull(s)
  \/ \E s \in DOMAIN streams : Len(heap) < PairDocs /\ PassYields(s)
  \/ \E s \in DOMAIN streams : Exhausted(s)

SpecPipes == InitPipes /\ [][NextPipes]_vars

\* A generator of a transformer whose hooks may fail, and a second call
\* of transform on the same instance, made after the first has failed, by
\* which time the hooks fail no more.
NextRetry ==
  \/ \E g \in {1, 2}, t \in Transformers :
        /\ TransformerTransform(g, t, GoodDoc)
        /\ g = 2 => (streams[1].steps = << t >> /\ streams[1].status = "failed")
  \/ \E s \in DOMAIN streams : Pull(s)
  \/ \E s \in DOMAIN streams : PassYields(s)
  \/ 1 \in DOMAIN streams /\ PassRaises(1)
  \/ \E s \in DOMAIN streams : Exhausted(s)

SpecRetry == InitPair /\ [][NextRetry]_vars

\* One generator of a transformer or of a Pipeline with finite n_samples,
\* whose consumer keeps pulling after the stream has ended or failed.
NextAfter ==
  \/ \E steps \in ValidSteps, build \in Builds : NewPipeline(steps, build)
  \/ \E t \in Transformers, jam \in {GoodDoc, BadDoc} : TransformerTransform(1, t, jam)
  \/ \E jam \in {GoodDoc, BadDoc} : PipelineTransform(1, jam)
  \/ \E s \in DOMAIN streams : Pull(s)
  \/ \E s \in DOMAIN streams : PassYields(s)
  \/ \E s \in DOMAIN streams : PassRaises(s)
  \/ \E s \in DOMAIN streams : Exhausted(s)
  \/ \E s \in DOMAIN streams : PullFinished(s)

SpecAfter == InitPair /\ [][NextAfter]_vars

\* One generator of a Pipeline, left alone by its consumer, in a smaller
\* heap.
SoloDocs == MaxDocs - 1

NextSolo ==
  \/ \E steps \in ValidSteps, build \in Builds : NewPipeline(steps, build)
  \/ \E jam \in {GoodDoc, BadDoc} : PipelineTransform(1, jam)
  \/ \E s \in DOMAIN streams : Pull(s)
  \/ \E s \in DOMAIN streams : Len(heap) < SoloDocs /\ PassYields(s)
  \/ \E s \in DOMAIN streams : Len(heap) < SoloDocs /\ PassRaises(s)
  \/ \E s \in DOMAIN streams : Exhausted(s)

SpecSolo == Init /\ [][NextSolo]_vars

\* Every argument list a caller can write for Pipeline(...).
StepValues == Transformers \cup NonTransformers

AnySteps ==
  UNION { [1..n -> Names \X StepValues] : n \in 0..MaxSteps }

NextInit == \E steps \in AnySteps, build \in Builds : NewPipeline(steps, build)

SpecInit == Init /\ [][NextInit]_vars


\* ------------------------------------------------- properties

Finite(ts) == \A k \in DOMAIN ts : n_samples[ts[k]] # None

\* c_k * ... * c_m for the steps ts
RECURSIVE Product(_, _)
Product(ts, k) ==
  IF k > Len(ts) THEN 1 ELSE n_samples[ts[k]] * Product(ts, k + 1)

\* The variant indices on the way from an input document down to d
RECURSIVE Path(_)
Path(d) == IF heap[d].src = 0 THEN << >> ELSE Append(Path(heap[d].src), heap[d].ord)

\* The document d descends from at depth k (its own depth included)
RECURSIVE Ancestor(_, _)
Ancestor(d, k) == IF Len(Path(d)) <= k THEN d ELSE Ancestor(heap[d].src, k)

LexLess(p, q) ==
  \E k \in 1..Len(p) : /\ p[k] < q[k]
                       /\ \A j \in 1..(k - 1) : p[j] = q[j]

Ceil(a, b) == (a + b - 1) \div b

RECURSIVE Sum(_, _)
Sum(f, k) == IF k > Len(f) THEN 0 ELSE f[k] + Sum(f, k + 1)

PStreams == { s \in DOMAIN streams : streams[s].kind = "P" }

TStreams == { s \in DOMAIN streams : streams[s].kind = "T" }

NamesOf(steps) == { steps[k][1] : k \in DOMAIN steps }

\* C1: a Pipeline stream over stages with finite n_samples c_1..c_m, once
\* exhausted, has yielded exactly c_1 * ... * c_m documents, and their
\* per-stage variant indices come in strictly increasing lexicographic
\* (depth-first) order, each index below its stage's count.
C1_CartesianDepthFirst ==
  \A s \in PStreams :
    LET g == streams[s]
    IN (g.status = "done" /\ Finite(g.steps)) =>
         /\ Len(g.out) = Product(g.steps, 1)
         /\ \A a \in DOMAIN g.out :
              /\ Len(Path(g.out[a])) = Len(g.steps)
              /\ \A k \in DOMAIN g.steps :
                   Path(g.out[a])[k] < n_samples[g.steps[k]]
         /\ \A a, b \in DOMAIN g.out :
              a < b => LexLess(Path(g.out[a]), Path(g.out[b]))

C1_Witness ==
  \E s \in PStreams :
    /\ streams[s].status = "done"
    /\ Len(streams[s].steps) = 2
    /\ \A t \in Transformers : n_samples[t] = 2
    /\ Len(streams[s].out) = 4

\* C2: every document a Pipeline stream of m steps has yielded (and the
\* consumer has not since modified) carries the input's history followed
\* by exactly m records, the k-th written by step k.
C2_HistoryChain ==
  \A s \in PStreams :
    LET g == streams[s]
        base == heap[g.jam].history
    IN \A a \in DOMAIN g.out :
         g.out[a] \notin touched =>
           LET h == heap[g.out[a]].history
           IN /\ Len(h) = Len(base) + Len(g.steps)
              /\ SubSeq(h, 1, Len(base)) = base
              /\ \A k \in DOMAIN g.steps :
                   h[Len(base) + k].transformer = g.steps[k]

C2_Witness ==
  \E s \in PStreams :
    /\ streams[s].steps = << "T1", "T2" >>
    /\ Len(streams[s].out) >= 2
    /\ \A a \in DOMAIN streams[s].out : streams[s].out[a] \notin touched

\* C3: whatever a stream has done so far, the documents handed to
\* transform still equal what they were before the call.
C3_InputUnchanged ==
  /\ heap[GoodDoc] = InitHeap[GoodDoc]
  /\ heap[BadDoc] = InitHeap[BadDoc]

C3_Witness ==
  \E s \in DOMAIN streams :
    /\ streams[s].status = "done"
    /\ streams[s].jam = GoodDoc
    /\ \E a \in DOMAIN streams[s].out : heap[streams[s].out[a]].audio \in 1..MaxState

\* C4: the documents one Transformer stream has yielded are distinct
\* objects, none of them the input, each copied from the input itself;
\* each one the consumer has not modified holds the input's history plus
\* the one record of this transformer and nothing a consumer wrote into a
\* sibling.
C4_SiblingIsolation ==
  \A s \in TStreams :
    LET g == streams[s]
    IN /\ \A a, b \in DOMAIN g.out : a # b => g.out[a] # g.out[b]
       /\ \A a \in DOMAIN g.out :
            LET d == g.out[a]
            IN /\ d # g.jam
               /\ heap[d].src = g.jam
               /\ d \notin touched =>
                    /\ Len(heap[d].history) = Len(heap[g.jam].history) + 1
                    /\ SubSeq(heap[d].history, 1, Len(heap[g.jam].history))
                         = heap[g.jam].history
                    /\ heap[d].history[Len(heap[d].history)].transformer = g.steps[1]
                    /\ heap[d].audio # Junk

C4_Witness ==
  \E s \in TStreams :
    /\ Len(streams[s].out) = 2
    /\ streams[s].out[1] \in touched
    /\ streams[s].out[2] \notin touched


\* C5: a Pipeline constructed with zero steps exists, and its stream
\* yields exactly the input document, unchanged, once, and then ends.
C5_EmptyPipelineIdentity ==
  (pipe.status # "none" /\ pipe.args = << >>) =>
     /\ pipe.status = "ok"
     /\ \A s \in PStreams :
          /\ streams[s].status \in {"yielded", "done"} => streams[s].out = << streams[s].jam >>
          /\ heap[streams[s].jam] = InitHeap[streams[s].jam]

\* C6 as claimed: a pull on the stream of a document without sidecar
\* fails with the missing-state error, whatever n_samples is, and nothing
\* has been copied, appended or hooked.
C6_MissingSidecarFails ==
  \A s \in DOMAIN streams :
    (streams[s].jam = BadDoc /\ streams[s].status \notin {"new", "running"}) =>
       /\ streams[s].status = "failed"
       /\ streams[s].exc = "RuntimeError"
       /\ heap = InitHeap

\* C6 amended: the first pull on the stream of a document without
\* sidecar fails with the missing-state error when the (head) stage's
\* n_samples is not 0, and ends the stream empty and without error when it
\* is 0; either way no copy is made, no record appended, no hook run and
\* nothing yielded.
C6_MissingSidecarFailsUnlessZero ==
  \A s \in DOMAIN streams :
    LET g == streams[s]
    IN g.jam = BadDoc =>
         /\ heap = InitHeap
         /\ g.out = << >>
         /\ g.status \notin {"new", "running"} =>
              IF n_samples[g.steps[1]] = 0
                THEN g.status = "done" /\ g.exc = ""
                ELSE g.status = "failed" /\ g.exc = "RuntimeError"

C6_Witness ==
  \E s \in PStreams :
    /\ streams[s].jam = BadDoc
    /\ streams[s].status = "failed"
    /\ Len(streams[s].steps) = 2

\* C7: Pipeline(...) with two steps sharing a name raises the error about
\* duplicate names (ValueError) and returns no Pipeline, whatever the step
\* values are.
C7_DuplicateNameError ==
  (pipe.status # "none" /\ Cardinality(NamesOf(pipe.args)) < Len(pipe.args)) =>
     /\ pipe.status = "raised"
     /\ pipe.exc = "ValueError"
     /\ pipe.about = "names"

\* C8: Pipeline(...) with unique names and a step value that is not a
\* transformer raises the TypeError whose message shows the first such
\* step, and returns no Pipeline.
C8_TypeMismatchError ==
  LET bad == { k \in DOMAIN pipe.args : pipe.args[k][2] \notin Transformers }
  IN (/\ pipe.status # "none"
      /\ Cardinality(NamesOf(pipe.args)) = Len(pipe.args)
      /\ bad # {}) =>
        /\ pipe.status = "raised"
        /\ pipe.exc = "TypeError"
        /\ pipe.about = "step"
        /\ pipe.step = Min(bad)

\* C9: a Transformer stream with finite n_samples = k never yields more
\* than k variants, has yielded exactly k when it ends, and while it is
\* suspended its counter is the number of variants it has yielded before
\* the last one, whatever another stream of the same instance on the same
\* input has done in between.
C9_RestartableCount ==
  \A s \in TStreams :
    LET g == streams[s]
        k == n_samples[g.steps[1]]
    IN k # None =>
         /\ Len(g.out) <= k
         /\ g.status = "done" => Len(g.out) = k
         /\ g.status = "yielded" => g.frames[1].i = Len(g.out) - 1

C9_Witness ==
  /\ Len(streams) = 2
  /\ streams[1].steps = streams[2].steps
  /\ streams[1].status = "done"
  /\ streams[2].status = "done"
  /\ streams[1].out = << 3, 5 >>
  /\ streams[2].out = << 4, 6 >>

\* C10: a generator that was created but never pulled has run no pass; a
\* generator suspended after j outputs has run, at every stage, exactly
\* one pass per distinct ancestor of those outputs; every pass on a valid
\* input made exactly one copy; and for two stages with b >= 1 variants
\* of the second stage, the first stage has run ceil(j/b) passes and the
\* second j.
C10_Lazy ==
  \A s \in DOMAIN streams :
    LET g == streams[s]
        j == Len(g.out)
    IN /\ g.status = "new" =>
            /\ Sum(g.passes, 1) = 0
            /\ g.frames = << >>
            /\ heap = InitHeap
       /\ g.status = "yielded" =>
            \A k \in DOMAIN g.steps :
              g.passes[k] = Cardinality({ Ancestor(d, k) : d \in Range(g.out) })
       /\ g.jam = GoodDoc => Len(heap) = Len(InitHeap) + Sum(g.passes, 1)
       /\ (/\ g.kind = "P"
           /\ Len(g.steps) = 2
           /\ g.status \in {"yielded", "done"}
           /\ n_samples[g.steps[2]] >= 1) =>
             /\ g.passes[1] = Ceil(j, n_samples[g.steps[2]])
             /\ g.passes[2] = j

C10_Witness ==
  \E s \in PStreams :
    /\ streams[s].status = "yielded"
    /\ streams[s].steps = << "T1", "T2" >>
    /\ n_samples["T1"] = 2
    /\ n_samples["T2"] = 2
    /\ Len(streams[s].out) = 3
    /\ streams[s].passes = << 2, 3 >>

\* The content of a document, whichever object holds it.
Content(doc) == [doc EXCEPT !.src = 0, !.ord = 0]

\* What steps k.. of ts, run on doc by a stream nobody else disturbs, make
\* of it when step j draws the state recs[j].state.
RECURSIVE Replay(_, _, _, _)
Replay(doc, ts, recs, k) ==
  IF k > Len(ts) THEN doc
  ELSE LET s == recs[k].state
           d1 == [doc EXCEPT !.history = Append(@, [transformer |-> ts[k], state |-> s])]
           calls == HookCalls(ts[k], d1)
       IN Replay(RunHooks(d1, calls, Len(calls), s), ts, recs, k + 1)

\* C11: of two streams of one Pipeline pulled in any interleaving, each
\* yields what it would yield alone: documents descending from its own
\* input, in depth-first order of the variant indices, each with the
\* input's history plus one record per step and exactly the content that
\* the steps make of the input with the states in those records; never
\* more than the product of the n_samples, and exactly that many once it
\* has ended; and it never fails.
C11_InterleavedAsAlone ==
  \A s \in PStreams :
    LET g == streams[s]
        base == heap[g.jam].history
        m == Len(g.steps)
    IN /\ g.status # "failed"
       /\ Len(g.out) <= Product(g.steps, 1)
       /\ g.status = "done" => Len(g.out) = Product(g.steps, 1)
       /\ \A a, b \in DOMAIN g.out :
            a < b => LexLess(Path(g.out[a]), Path(g.out[b]))
       /\ \A a \in DOMAIN g.out :
            LET d == g.out[a]
                h == heap[d].history
            IN /\ Ancestor(d, 0) = g.jam
               /\ Len(Path(d)) = m
               /\ \A k \in 1..m : Path(d)[k] < n_samples[g.steps[k]]
               /\ Len(h) = Len(base) + m
               /\ \A k \in 1..m : h[Len(base) + k].state \in get_state(g.steps[k])
               /\ Content(heap[d]) =
                    Content(Replay(heap[g.jam], g.steps,
                                   SubSeq(h, Len(base) + 1, Len(h)), 1))

C11_Witness ==
  /\ Len(streams) = 2
  /\ streams[1].jam # streams[2].jam
  /\ streams[1].steps = << "T1" >>
  /\ streams[1].status = "done"
  /\ streams[2].status = "done"
  /\ Len(streams[1].out) = 2
  /\ Len(streams[2].out) = 2
  /\ streams[1].out[1] < streams[2].out[1]
  /\ streams[2].out[1] < streams[1].out[2]
  /\ streams[1].out[2] < streams[2].out[2]

\* d is what one whole pass makes of the document it was copied from:
\* that document's content, the record of the pass, and every hook of the
\* pass's transformer applied with the state in that record.
Complete(d) ==
  LET h == heap[d].history
      r == h[Len(h)]
  IN /\ heap[d].src # 0
     /\ h # << >>
     /\ r.transformer \in Transformers
     /\ Content(heap[d]) =
          Content(Replay(heap[heap[d].src], << r.transformer >>, << r >>, 1))

\* C12: when a hook fails during a pass, the pull in progress ends with
\* that failure (for a Transformer stream: it is the pull for the variant
\* after the ones delivered), the copy the pass was working on is in no
\* stream's output and no document was copied from it; and every document
\* that was yielded or passed to the next stage is the result of a whole
\* pass.
C12_HookFailureDiscardsCopy ==
  \A s \in DOMAIN streams :
    LET g == streams[s]
        m == Len(g.steps)
    IN /\ \A d \in Range(g.out) \cup { g.frames[k].jam : k \in DOMAIN g.frames } :
            d # g.jam => Complete(d)
       /\ (g.status = "failed" /\ g.exc = "HookError") =>
            /\ g.frames = << >>
            /\ Len(heap) \notin Range(g.out)
            /\ \A d \in DOMAIN heap : heap[d].src # Len(heap)
            /\ g.passes[m] - Len(g.out) \in {0, 1}
            /\ g.kind = "T" => g.passes[1] = Len(g.out) + 1

C12_Witness ==
  \E s \in PStreams :
    /\ streams[s].status = "failed"
    /\ streams[s].exc = "HookError"
    /\ streams[s].steps = << "T2", "T1" >>
    /\ Len(streams[s].out) = 1
    /\ heap[Len(heap)].history[Len(heap[Len(heap)].history)].transformer = "T1"
    /\ heap[Len(heap)].audio \in 1..MaxState
    /\ heap[Len(heap)].meta = 0
    /\ ~ Complete(Len(heap))

\* C13: a hook failure leaves the documents the stream had yielded as the
\* passes made them, and a transform call made on the same instance
\* afterwards, its hooks failing no more, never fails, yields one whole
\* variant per pass, each with the input's history plus one record of
\* this transformer holding a state of its own, and ends after exactly
\* n_samples of them.
C13_FailureDoesNotPoison ==
  \A s \in TStreams :
    LET g == streams[s]
        t == g.steps[1]
        base == heap[g.jam].history
    IN /\ \A a \in DOMAIN g.out :
            LET d == g.out[a]
                h == heap[d].history
            IN /\ Complete(d)
               /\ heap[d].src = g.jam
               /\ heap[d].ord = a - 1
               /\ h = Append(base, h[Len(h)])
               /\ h[Len(h)].transformer = t
               /\ h[Len(h)].state \in get_state(t)
       /\ s = 2 =>
            /\ g.status # "failed"
            /\ g.status \in {"yielded", "done"} => g.passes[1] = Len(g.out)
            /\ n_samples[t] # None => Len(g.out) <= n_samples[t]
            /\ g.status = "done" => Len(g.out) = n_samples[t]

C13_Witness ==
  /\ Len(streams) = 2
  /\ streams[1].steps = << "T1" >>
  /\ streams[1].status = "failed"
  /\ streams[1].exc = "HookError"
  /\ Len(streams[1].out) = 1
  /\ heap[streams[1].out[1] + 1].meta = 0
  /\ heap[streams[1].out[1] + 1].audio \in 1..MaxState
  /\ streams[2].status = "done"
  /\ n_samples["T1"] = 2
  /\ Len(streams[2].out) = 2

Unbounded(ts) == \E k \in DOMAIN ts : n_samples[ts[k]] = None

\* C14 as claimed: the stream of a Pipeline with an unbounded stage never
\* signals exhaustion, whatever the other stages are.
C14_UnboundedNeverEnds ==
  \A s \in PStreams :
    Unbounded(streams[s].steps) => streams[s].status # "done"

\* C14 amended: the stream of a Pipeline with an unbounded stage, every
\* other stage of which has n_samples >= 1, never signals exhaustion, and
\* a pull takes at most one pass per stage to return its document; only a
\* failing pass ends the stream.
C14_UnboundedNeverEndsIfNoneEmpty ==
  \A s \in PStreams :
    LET g == streams[s]
        m == Len(g.steps)
    IN (Unbounded(g.steps) /\ \A k \in 1..m : n_samples[g.steps[k]] # 0) =>
         /\ g.status # "done"
         /\ g.status = "failed" => g.exc \in {"RuntimeError", "HookError"}
         /\ Sum(g.passes, 1) <= m * (Len(g.out) + 1)
         /\ g.status = "yielded" => Sum(g.passes, 1) <= m * Len(g.out)

C14_Witness ==
  \E s \in PStreams :
    /\ streams[s].steps = << "T1", "T2" >>
    /\ n_samples["T1"] = 1
    /\ n_samples["T2"] = None
    /\ streams[s].status = "yielded"
    /\ Len(streams[s].out) = 4

\* The combinations of per-stage variant indices of the finite steps ts
Combos(ts) ==
  { p \in [1..Len(ts) -> 0..(MaxSamples - 1)] :
      \A k \in 1..Len(ts) : p[k] < n_samples[ts[k]] }

Paths(g) == { Path(g.out[a]) : a \in DOMAIN g.out }

\* Stage k of g is suspended with variants still to come after the
\* current one, below it runs an unbounded stage.
Starved(g, k) ==
  /\ k \in DOMAIN g.frames
  /\ LoopCond(n_samples[g.steps[k]], NextI(g.frames[k].i))
  /\ \E u \in (k + 1)..Len(g.frames) : n_samples[g.steps[u]] = None

\* C15 as claimed: no combination is yielded twice, and every combination
\* not yet yielded is still to come: an exhausted stream has yielded them
\* all, and a stage with variants left is never stuck above a running
\* unbounded stage (whose loop does not end, so that the stage above it is
\* not resumed).
C15_EveryCombinationOnce ==
  \A s \in PStreams :
    LET g == streams[s]
    IN /\ \A a, b \in DOMAIN g.out : a # b => Path(g.out[a]) # Path(g.out[b])
       /\ (g.status = "done" /\ Finite(g.steps)) =>
            \A p \in Combos(g.steps) : \E q \in Paths(g) : \A k \in DOMAIN p : q[k] = p[k]
       /\ \A k \in DOMAIN g.steps : ~ Starved(g, k)

\* C15 amended: no combination is yielded twice; a stream whose stages
\* are all finite has yielded every combination when it signals
\* exhaustion; and once an unbounded stage runs, the stages above it stay
\* where they are, so that every output takes the first variant of every
\* stage upstream of an unbounded one.
C15_OnceAndDepthFirst ==
  \A s \in PStreams :
    LET g == streams[s]
    IN /\ \A a, b \in DOMAIN g.out : a # b => Path(g.out[a]) # Path(g.out[b])
       /\ (g.status = "done" /\ Finite(g.steps)) =>
            /\ \A p \in Combos(g.steps) : \E q \in Paths(g) : \A k \in DOMAIN p : q[k] = p[k]
            /\ Cardinality(Paths(g)) = Cardinality(Combos(g.steps))
       /\ \A u \in DOMAIN g.steps :
            n_samples[g.steps[u]] = None =>
              /\ \A k \in 1..(u - 1) :
                   /\ \A q \in Paths(g) : q[k] = 0
                   /\ Len(g.frames) >= u => g.frames[k].i = 0
              /\ (g.out # << >> /\ g.status \in {"running", "yielded"}) =>
                   Len(g.frames) >= u

C15_Witness ==
  \E s \in PStreams :
    /\ streams[s].steps = << "T1", "T2" >>
    /\ n_samples["T1"] = 2
    /\ n_samples["T2"] = None
    /\ streams[s].status = "yielded"
    /\ Len(streams[s].out) = 4
    /\ Starved(streams[s], 1)

\* C16: whenever no pass is running (between two pulls, after a stream
\* has ended or failed), no transformer instance carries the state of a
\* pass: self._state is what __init__ and the entry of transform make it,
\* an empty dict.
C16_StateScopedToPass ==
  Idle => \A t \in Transformers : T_state[t] = EmptyState

\* C17: in every document a stream has yielded, and in each of its
\* ancestors, the newest record is the one of the pass that made it: it
\* names the step's transformer, its state is one get_state of that
\* transformer returns and the one every hook of the pass wrote; and as
\* long as that pass is the last thing the transformer did, it is the
\* state the pass installed on the instance.
C17_RecordHoldsOwnState ==
  \A s \in DOMAIN streams :
    LET g == streams[s]
        m == Len(g.steps)
    IN \A a \in DOMAIN g.out :
         /\ \A k \in 1..m :
              LET d == Ancestor(g.out[a], k)
                  h == heap[d].history
                  r == h[Len(h)]
              IN /\ h # << >>
                 /\ r.transformer = g.steps[k]
                 /\ r.state \in get_state(g.steps[k])
                 /\ Complete(d)
         /\ (m > 0 /\ g.out[a] = Len(heap) /\ T_state[g.steps[m]] # EmptyState) =>
              T_state[g.steps[m]] =
                heap[g.out[a]].history[Len(heap[g.out[a]].history)].state

C17_Witness ==
  /\ Len(streams) = 2
  /\ streams[1].steps = << "T1", "T1" >>
  /\ Len(streams[1].out) = 1
  /\ Len(streams[2].out) = 1
  /\ streams[1].out[1] < streams[2].out[1]
  /\ heap[Ancestor(streams[1].out[1], 1)].audio = 1
  /\ heap[streams[1].out[1]].audio = 2
  /\ heap[Ancestor(streams[2].out[1], 1)].audio = 2
  /\ heap[streams[2].out[1]].audio = 1
  /\ heap[streams[2].out[1]].history[Len(heap[streams[2].out[1]].history)].state = 1

\* What hook number n of a pass writes to: the audio, the metadata, the
\* annotation of namespace x, the annotation of namespace y.
Part(doc, n) ==
  IF n = 1 THEN doc.audio
  ELSE IF n = 2 THEN doc.meta
  ELSE doc.ann[n - 2].val

\* C18: a pass that fails the sidecar check has copied nothing and
\* computed no state.  The copy a pass was working on when a hook failed
\* is a copy of the pass's input that already holds the record of the
\* pass, with the state the pass installed on the instance; each part of
\* it is either as in the input or written by its hook, and whenever a
\* hook has written its part, the hooks before it (audio, metadata,
\* dispatch on x, dispatch on y, in this order) have written theirs; the
\* failing hook has not.
C18_PassOrder ==
  \A s \in DOMAIN streams :
    LET g == streams[s]
        p == Len(heap)
        h == heap[p].history
        r == h[Len(h)]
        in == heap[heap[p].src]
    IN /\ (g.status = "failed" /\ g.exc = "RuntimeError") =>
            /\ heap = InitHeap
            /\ \A t \in Transformers : T_state[t] = EmptyState
       /\ (g.status = "failed" /\ g.exc = "HookError") =>
            /\ heap[p].src # 0
            /\ heap[p].muda
            /\ h = Append(in.history, r)
            /\ r.transformer \in Range(g.steps)
            /\ hasAudio(r.transformer)
            /\ r.state = T_state[r.transformer]
            /\ r.state \in get_state(r.transformer)
            /\ \A n \in 1..4 : Part(heap[p], n) \in {Part(in, n), r.state}
            /\ \A n \in 2..4 :
                 Part(heap[p], n) # Part(in, n) => Part(heap[p], n - 1) = r.state
            /\ \E n \in 1..4 : Part(heap[p], n) = Part(in, n)

C18_Witness ==
  \E s \in DOMAIN streams :
    /\ streams[s].status = "failed"
    /\ streams[s].exc = "HookError"
    /\ streams[s].jam = GoodDoc
    /\ heap[Len(heap)].src = GoodDoc
    /\ Part(heap[Len(heap)], 1) = 2
    /\ Part(heap[Len(heap)], 2) = 2
    /\ Part(heap[Len(heap)], 3) = 2
    /\ Part(heap[Len(heap)], 4) = 0
    /\ Len(heap[Len(heap)].history) = 2

\* The first step of ts with n_samples = 0 comes after an unbounded one.
EmptyBelowUnbounded(ts) ==
  \E k \in DOMAIN ts :
    /\ n_samples[ts[k]] = 0
    /\ \A j \in 1..(k - 1) : n_samples[ts[j]] # 0
    /\ \E u \in 1..(k - 1) : n_samples[ts[u]] = None

\* C19 as claimed: every pull completes after finitely many passes,
\* whatever the n_samples of the stages.  What a running pull does next
\* depends on its control point only, and there are finitely many of
\* them: a pull that comes to a control point a second time goes round
\* for ever, and a pull that completes never does.
C19_PullCompletes ==
  \A s \in DOMAIN streams : ~ streams[s].again

\* C19 amended: a pull comes to a control point a second time only in a
\* Pipeline whose first stage with n_samples = 0 comes after an unbounded
\* stage; the stream of such a Pipeline never yields and never ends: on a
\* document with sidecar its first pull runs passes until one fails.
C19_PullCompletesUnlessEmptyBelowUnbounded ==
  \A s \in DOMAIN streams :
    LET g == streams[s]
    IN /\ g.again => EmptyBelowUnbounded(g.steps)
       /\ EmptyBelowUnbounded(g.steps) =>
            /\ g.out = << >>
            /\ g.status # "done"
            /\ g.status = "failed" => g.exc \in {"RuntimeError", "HookError"}

C19_Witness ==
  \E s \in PStreams :
    /\ streams[s].steps = << "T1", "T2" >>
    /\ n_samples["T1"] = None
    /\ n_samples["T2"] = 0
    /\ streams[s].status = "running"
    /\ streams[s].again
    /\ streams[s].passes = << 4, 0 >>

\* C20: from the moment a pull of a stream has failed, no step changes
\* what the stream has yielded, the passes it has run, the documents in
\* existence or the failure it met, and the stream is failed or ended: a
\* later pull signals the end and runs nothing.
C20_FailedStreamIsFinished ==
  [][\A s \in DOMAIN streams :
       streams[s].exc # "" =>
         /\ streams'[s].status \in {"failed", "done"}
         /\ streams[s].status = "done" => streams'[s].status = "done"
         /\ streams'[s].frames = << >>
         /\ streams'[s].out = streams[s].out
         /\ streams'[s].passes = streams[s].passes
         /\ streams'[s].exc = streams[s].exc
         /\ heap' = heap]_vars

C20_Witness ==
  \E s \in PStreams :
    /\ streams[s].exc = "HookError"
    /\ streams[s].status = "done"
    /\ streams[s].steps = << "T2", "T1" >>
    /\ n_samples["T2"] = 2
    /\ n_samples["T1"] = 2
    /\ Len(streams[s].out) = 1
    /\ streams[s].passes = << 1, 2 >>

====
